---------------------------- MODULE Spec2Model ----------------------------
(***************************************************************************)
(* Binary codecs of postgresql/types/io/lib.py.                            *)
(*                                                                         *)
(* A byte string is a sequence of integers in 0..255.  The lazy sequences  *)
(* returned by record_unpack and array_unpack are Python generators; one   *)
(* action models one next() call on the generator.                         *)
(***************************************************************************)
EXTENDS Integers, Sequences, FiniteSets, TLC

VARIABLES
    codec,      \* which codec this run exercises
    arg,        \* the value handed to the pack function
    data,       \* the byte buffer handed to the unpack function
    origin,     \* "pack": data was built by the pack function; "wire": it arrived as is
    pc,         \* position of the caller / generator
    columns,    \* record_unpack: local "columns"
    offset,     \* record_unpack / elements_unpack: local "offset"
    sizeof_el,  \* elements_unpack: local "sizeof_el" while suspended at its yield
    out,        \* items the generator has yielded so far, in order
    ret,        \* value returned by a plain (non-generator) call
    err         \* exception that ended the call, or NoErr

vars == <<codec, arg, data, origin, pc, columns, offset, sizeof_el, out, ret, err>>

-----------------------------------------------------------------------------
(* Bounds of the model *)

MaxFields == 2
MaxRawFields == 2
MaxElements == 3
MaxBounds == 2
MaxChunks == 3
MaxVecLen == 34
MaxCoords == 4
MaxPoints == 2

-----------------------------------------------------------------------------
(* Python values *)

NoErr == "none"
StructError == "struct.error"
TypeError == "TypeError"
InsufficientData == "ValueError: insufficient data left in message"
ExtraData == "ValueError: extra data at end of record"
InvalidDimensions == "ValueError: invalid number of dimensions"

\* None and a bytes object, kept apart: b'' is not None.
None == [isnone |-> TRUE, bytes |-> <<>>]
Bytes(b) == [isnone |-> FALSE, bytes |-> b]

NoValue == <<>>

SeqsUpTo(S, n) == UNION {[1..k -> S] : k \in 0..n}

RECURSIVE Join(_)
Join(ss) == IF ss = <<>> THEN <<>> ELSE Head(ss) \o Join(Tail(ss))

Min(a, b) == IF a < b THEN a ELSE b
Max(a, b) == IF a > b THEN a ELSE b

\* s[a:b] for a Python sequence: negative indexes count from the end, both
\* ends are clamped to the sequence, an empty range gives the empty sequence.
PySlice(s, a, b) ==
    LET n == Len(s)
        lo == IF a < 0 THEN Max(a + n, 0) ELSE Min(a, n)
        hi == IF b < 0 THEN Max(b + n, 0) ELSE Min(b, n)
    IN  IF lo < hi THEN SubSeq(s, lo + 1, hi) ELSE <<>>

-----------------------------------------------------------------------------
(* python.structlib: big-endian fixed-width packers *)

BE4(n) == <<n \div 16777216, (n \div 65536) % 256, (n \div 256) % 256, n % 256>>

Complement(b) == [i \in 1..Len(b) |-> 255 - b[i]]

\* struct "!l": signed 32-bit, two's complement.
long_pack(n) == IF n >= 0 THEN BE4(n) ELSE Complement(BE4(-(n + 1)))

FromBE4(b) == b[1] * 16777216 + b[2] * 65536 + b[3] * 256 + b[4]

long_unpack(b) == IF b[1] < 128 THEN FromBE4(b) ELSE -FromBE4(Complement(b)) - 1

\* struct "!L": unsigned 32-bit.  A value v of 2^31 or more does not fit the
\* 32-bit integers of the model and is written v - 2^32; the codecs only
\* carry these values (type oids), they never compute with them.
ulong_pack(n) == IF n >= 0 THEN BE4(n) ELSE Complement(BE4(-(n + 1)))
ulong_unpack(b) == IF b[1] < 128 THEN FromBE4(b) ELSE -FromBE4(Complement(b)) - 1

\* unpacking a slice shorter than the format raises struct.error
TooShort(b, n) == Len(b) < n

oid_pack(n) == ulong_pack(n)
oid_unpack(b) == ulong_unpack(b)

null_sequence == <<255, 255, 255, 255>>

-----------------------------------------------------------------------------
(* record codec *)

\* Python's "c and a or b"
AndOr(c, a, b) == IF c /\ a # <<>> THEN a ELSE b

\* mutation: "not y" in place of "y is None", so b'' is packed as NULL
record_pack_field_falsy(f) ==
    oid_pack(f[1]) \o
    AndOr(f[2].isnone \/ f[2].bytes = <<>>, null_sequence,
          long_pack(Len(f[2].bytes)) \o f[2].bytes)

record_pack_field(f) ==
    oid_pack(f[1]) \o
    AndOr(f[2].isnone, null_sequence,
          long_pack(Len(f[2].bytes)) \o f[2].bytes)

record_pack(seq) ==
    long_pack(Len(seq)) \o Join([i \in 1..Len(seq) |-> record_pack_field(seq[i])])

\* mutation: the length of the slice is not compared with the declared size
AttRejectedSignOnly(size, att) == size < -1

\* line 318: the test that rejects an attribute
AttRejected(size, att) == size < -1 \/ Len(att) # size

\* One pass through the body of the for loop of record_unpack, started at off.
RecordBody(d, off) ==
    LET tagb == PySlice(d, off, off + 4)
        o1 == off + 4
        lend == PySlice(d, o1, o1 + 4)
        o2 == o1 + 4
    IN  IF TooShort(tagb, 4)
        THEN [err |-> StructError, item |-> NoValue, offset |-> off]
        ELSE IF lend = null_sequence
        THEN [err |-> NoErr, item |-> <<oid_unpack(tagb), None>>, offset |-> o2]
        ELSE IF TooShort(lend, 4)
        THEN [err |-> StructError, item |-> NoValue, offset |-> o1]
        ELSE LET size == long_unpack(lend)
                 att == PySlice(d, o2, o2 + size)
             IN  IF AttRejected(size, att)
                 THEN [err |-> InsufficientData, item |-> NoValue, offset |-> o2]
                 ELSE [err |-> NoErr, item |-> <<oid_unpack(tagb), Bytes(att)>>,
                       offset |-> o2 + size]

\* line 323: the test made once range(columns) is exhausted
TrailingData(d, off) == Len(d) - off # 0

\* What one next() on the generator does: the header is read on the first
\* call only, then either one more loop pass or the test after the loop.
RecordNext(d, started, cols0, off0, nyielded) ==
    IF ~started /\ TooShort(PySlice(d, 0, 4), 4)
    THEN [kind |-> "raise", err |-> StructError, item |-> NoValue,
          offset |-> off0, columns |-> cols0]
    ELSE LET cols == IF started THEN cols0 ELSE long_unpack(PySlice(d, 0, 4))
             off == IF started THEN off0 ELSE 4
         IN  IF nyielded < cols
             THEN LET r == RecordBody(d, off)
                  IN  [kind |-> IF r.err = NoErr THEN "yield" ELSE "raise",
                       err |-> r.err, item |-> r.item,
                       offset |-> r.offset, columns |-> cols]
             ELSE IF TrailingData(d, off)
             THEN [kind |-> "raise", err |-> ExtraData, item |-> NoValue,
                   offset |-> off, columns |-> cols]
             ELSE [kind |-> "stop", err |-> NoErr, item |-> NoValue,
                   offset |-> off, columns |-> cols]

\* inputs of record_pack
TagVals == {23, 1043}
PayloadVals == {None, Bytes(<<>>), Bytes(<<7>>), Bytes(null_sequence)}
FieldSeqs == SeqsUpTo(TagVals \X PayloadVals, MaxFields)

\* buffers as a peer may send them: a count, fields whose length prefix need
\* not match the payload that follows, and possibly bytes after the last field
RawCounts == {-1, 0, 1, 2, 3}
RawLens == {-1, 0, 1, -3, 5}
RawPayloads == {<<>>, <<7>>, <<7, 7>>}
RawTrailers == {<<>>, <<7>>}
RawField(f) == oid_pack(f[1]) \o long_pack(f[2]) \o f[3]
RawRecords ==
    {long_pack(c) \o Join([i \in 1..Len(fs) |-> RawField(fs[i])]) \o t :
        c \in RawCounts,
        fs \in SeqsUpTo({1} \X RawLens \X RawPayloads, MaxRawFields),
        t \in RawTrailers}
    \cup {<<0, 0>>}

RecordInit ==
    /\ codec = "record"
    /\ \/ /\ origin = "pack"
          /\ arg \in FieldSeqs
          /\ data = <<>>
          /\ pc = "init"
       \/ /\ origin = "wire"
          /\ arg = NoValue
          /\ data \in RawRecords
          /\ pc = "call"
    /\ columns = 0
    /\ offset = 0
    /\ sizeof_el = 0
    /\ out = <<>>
    /\ ret = NoValue
    /\ err = NoErr

\* data = record_pack(seq); g = record_unpack(data)
RecordPack ==
    /\ codec = "record"
    /\ pc = "init"
    /\ data' = record_pack(arg)
    /\ pc' = "call"
    /\ UNCHANGED <<codec, arg, origin, columns, offset, sizeof_el, out, ret, err>>

\* next(g)
RecordUnpackNext ==
    /\ codec = "record"
    /\ pc \in {"call", "yield"}
    /\ LET r == RecordNext(data, pc = "yield", columns, offset, Len(out))
       IN  /\ pc' = CASE r.kind = "yield" -> "yield"
                      [] r.kind = "raise" -> "error"
                      [] OTHER -> "done"
           /\ out' = IF r.kind = "yield" THEN Append(out, r.item) ELSE out
           /\ err' = r.err
           /\ offset' = r.offset
           /\ columns' = r.columns
    /\ UNCHANGED <<codec, arg, data, origin, sizeof_el, ret>>

RecordNextAction == RecordPack \/ RecordUnpackNext

SpecRecord == RecordInit /\ [][RecordNextAction]_vars

IsPrefix(s, t) == Len(s) <= Len(t) /\ s = SubSeq(t, 1, Len(s))

\* C2: record round trip.  Once record_pack has built the buffer, the fields
\* record_unpack yields are the packed (tag, payload-or-None) pairs in order
\* (None stays None, b'' stays b''), no next() raises, and when the sequence
\* ends it has yielded all of them.
RecordRoundTrip ==
    (codec = "record" /\ origin = "pack" /\ pc # "init") =>
        /\ pc # "error"
        /\ err = NoErr
        /\ IsPrefix(out, arg)
        /\ (pc = "done" => out = arg)

RecordRoundTripWitness ==
    /\ codec = "record" /\ origin = "pack" /\ pc = "done"
    /\ Len(arg) = 2
    /\ arg[1][2] = None
    /\ arg[2][2] = Bytes(<<>>)
    /\ out = arg

\* The field the generator is about to decode, as the buffer declares it.
RecordStarted == pc = "yield"
RecordHeaderRead == RecordStarted \/ Len(data) >= 4
RecordCols == IF RecordStarted THEN columns ELSE long_unpack(PySlice(data, 0, 4))
RecordOff == IF RecordStarted THEN offset ELSE 4
RecordPrefix == PySlice(data, RecordOff + 4, RecordOff + 8)

\* the next field's length prefix is complete, is not the null sentinel and
\* declares more bytes than follow it
RecordFieldOverruns ==
    /\ codec = "record" /\ pc \in {"call", "yield"}
    /\ RecordHeaderRead
    /\ Len(out) < RecordCols
    /\ Len(RecordPrefix) = 4
    /\ RecordPrefix # null_sequence
    /\ long_unpack(RecordPrefix) > Len(data) - (RecordOff + 8)

\* the declared number of fields has been consumed and bytes remain
RecordHasTrailer ==
    /\ codec = "record" /\ pc \in {"call", "yield"}
    /\ RecordHeaderRead
    /\ Len(out) >= RecordCols
    /\ Len(data) > RecordOff

\* C3: when the field about to be decoded declares more payload than the
\* buffer still holds, next() raises the insufficient-data error; when the
\* declared fields are consumed and bytes remain, next() raises the
\* trailing-data error; in both cases the sequence does not end normally and
\* yields nothing more.
RecordRejectsBadFraming ==
    [][ /\ RecordFieldOverruns =>
            (pc' = "error" /\ err' = InsufficientData /\ out' = out)
        /\ RecordHasTrailer =>
            (pc' = "error" /\ err' = ExtraData /\ out' = out) ]_vars

RecordRejectsWitness ==
    /\ codec = "record" /\ origin = "wire"
    /\ pc = "error" /\ err = InsufficientData
    /\ Len(out) = 1
    /\ long_unpack(PySlice(data, offset - 4, offset)) > Len(data) - offset

\* C5 (as claimed): a failing record_unpack has handed no field to the
\* caller before the error is raised.
RecordNoPartialResult ==
    (codec = "record" /\ pc = "error") => out = <<>>

\* bytes a yielded field took in the buffer: tag, then the null sentinel or
\* the length prefix and the payload
FieldOctets(f) == 4 + 4 + (IF f[2].isnone THEN 0 ELSE Len(f[2].bytes))

RECURSIVE FieldsOctets(_)
FieldsOctets(fs) ==
    IF fs = <<>> THEN 0 ELSE FieldOctets(Head(fs)) + FieldsOctets(Tail(fs))

\* C11 (as claimed): when the field sequence of record_unpack ends without
\* an error, it has yielded as many fields as the 4-byte prefix declares,
\* negative values included, and the prefix and the yielded fields take up
\* exactly the buffer.
RecordFramingExact ==
    (codec = "record" /\ pc = "done") =>
        /\ Len(out) = long_unpack(SubSeq(data, 1, 4))
        /\ 4 + FieldsOctets(out) = Len(data)

-----------------------------------------------------------------------------
(* array codec *)

\* struct "!llL"
llL_pack(t) == long_pack(t[1]) \o long_pack(t[2]) \o ulong_pack(t[3])
llL_unpack(d) ==
    <<long_unpack(SubSeq(d, 1, 4)), long_unpack(SubSeq(d, 5, 8)),
      ulong_unpack(SubSeq(d, 9, 12))>>

\* mutation: "if not x" in place of "if x is None", so b'' is packed as NULL
elements_pack_one_falsy(x) ==
    IF x.isnone \/ x.bytes = <<>> THEN null_sequence
    ELSE long_pack(Len(x.bytes)) \o x.bytes

\* what elements_pack yields for one element
elements_pack_one(x) ==
    IF x.isnone THEN null_sequence ELSE long_pack(Len(x.bytes)) \o x.bytes

elements_pack(elements) ==
    Join([i \in 1..Len(elements) |-> elements_pack_one(elements[i])])

array_pack(a) ==
    llL_pack(<<Len(a.dlb) \div 2, a.flags, a.typid>>)
        \o Join([i \in 1..Len(a.dlb) |-> long_pack(a.dlb[i])])
        \o elements_pack(a.elements)

\* struct.unpack_from("!<n>l", d, at)
unpack_longs(d, n, at) == [i \in 1..n |-> long_unpack(SubSeq(d, at + 4 * i - 3, at + 4 * i))]

NoHeader == [flags |-> 0, typid |-> 0, dlb |-> <<>>]

\* mutation: off by one in the sign test
BadDimensionsBelowMinusOne(ndim) == ndim < -1

\* line 405
BadDimensions(ndim) == ndim < 0

\* The call array_unpack(d): the error it raises, or the header it returns
\* with the offset at which the element generator will start.  nbounds is
\* the number of bound integers decoded before the call ended.
array_unpack(d) ==
    IF TooShort(d, 12)
    THEN [err |-> StructError, header |-> NoHeader, end |-> 0, nbounds |-> 0]
    ELSE LET h == llL_unpack(d)
             ndim == h[1]
             end == 4 * 2 * ndim + 12
         IN  IF BadDimensions(ndim)
             THEN [err |-> InvalidDimensions, header |-> NoHeader, end |-> 0,
                   nbounds |-> 0]
             ELSE IF Len(d) - 12 < 4 * (2 * ndim)
             THEN [err |-> StructError, header |-> NoHeader, end |-> 0,
                   nbounds |-> 0]
             ELSE [err |-> NoErr,
                   header |-> [flags |-> h[2], typid |-> h[3],
                               dlb |-> unpack_longs(d, 2 * ndim, 12)],
                   end |-> end, nbounds |-> 2 * ndim]

\* One next() on the generator elements_unpack(d, ...), resumed with its
\* locals offset = off and, when it was suspended at the yield of line 395,
\* the sizeof_el still to be added (line 396).
ElementsNext(d, off, pending) ==
    LET o0 == off + pending
        lend == PySlice(d, o0, o0 + 4)
        o1 == o0 + 4
    IN  IF ~(o0 < Len(d))
        THEN [kind |-> "stop", err |-> NoErr, item |-> None, offset |-> o0,
              sizeof_el |-> 0]
        ELSE IF lend = null_sequence
        THEN [kind |-> "yield", err |-> NoErr, item |-> None, offset |-> o1,
              sizeof_el |-> 0]
        ELSE IF TooShort(lend, 4)
        THEN [kind |-> "raise", err |-> StructError, item |-> None,
              offset |-> o1, sizeof_el |-> 0]
        ELSE LET size == long_unpack(lend)
             IN  [kind |-> "yield", err |-> NoErr,
                  item |-> Bytes(PySlice(d, o1, o1 + size)),
                  offset |-> o1, sizeof_el |-> size]

\* inputs of array_pack
FlagVals == {0, 1, -1}
BoundVals == {-1, 2}
Arrays ==
    [flags : FlagVals, typid : {23, 1043}, dlb : SeqsUpTo(BoundVals, MaxBounds),
     elements : SeqsUpTo(PayloadVals, MaxElements)]

\* buffers as a peer may send them: a header, then 4-byte words and loose
\* bytes in any order
RawDims == {-1, 0, 1}
RawWords == {-1, 0, 1, 2, -4, -5, 6}
RawChunks == {long_pack(w) : w \in RawWords} \cup {<<7>>, <<7, 7>>}
RawArrays ==
    {llL_pack(<<n, 0, 23>>) \o Join(cs) :
        n \in RawDims, cs \in SeqsUpTo(RawChunks, MaxChunks)}
    \cup {<<0, 0, 0, 0, 0, 0>>}

ArrayInit ==
    /\ codec = "array"
    /\ \/ /\ origin = "pack"
          /\ arg \in Arrays
          /\ data = <<>>
          /\ pc = "init"
       \/ /\ origin = "wire"
          /\ arg = NoValue
          /\ data \in RawArrays
          /\ pc = "call"
    /\ columns = 0
    /\ offset = 0
    /\ sizeof_el = 0
    /\ out = <<>>
    /\ ret = [returned |-> FALSE, header |-> NoHeader, nbounds |-> 0]
    /\ err = NoErr

\* data = array_pack(arg)
ArrayPack ==
    /\ codec = "array"
    /\ pc = "init"
    /\ data' = array_pack(arg)
    /\ pc' = "call"
    /\ UNCHANGED <<codec, arg, origin, columns, offset, sizeof_el, out, ret, err>>

\* (flags, typid, dlb, g) = array_unpack(data); g is created, not yet run
ArrayUnpack ==
    /\ codec = "array"
    /\ pc = "call"
    /\ LET r == array_unpack(data)
       IN  /\ pc' = IF r.err = NoErr THEN "elements" ELSE "error"
           /\ err' = r.err
           /\ ret' = [returned |-> r.err = NoErr, header |-> r.header,
                      nbounds |-> r.nbounds]
           /\ offset' = r.end
    /\ UNCHANGED <<codec, arg, data, origin, columns, sizeof_el, out>>

\* A generator that never ends is followed for this many next() calls: more
\* than a buffer of this length holds elements.
StepLimit(d) == Len(d)

\* next(g)
ElementsUnpackNext ==
    /\ codec = "array"
    /\ pc \in {"elements", "yield"}
    /\ Len(out) < StepLimit(data)
    /\ LET r == ElementsNext(data, offset, sizeof_el)
       IN  /\ pc' = CASE r.kind = "yield" -> "yield"
                      [] r.kind = "raise" -> "error"
                      [] OTHER -> "done"
           /\ out' = IF r.kind = "yield" THEN Append(out, r.item) ELSE out
           /\ err' = r.err
           /\ offset' = r.offset
           /\ sizeof_el' = r.sizeof_el
    /\ UNCHANGED <<codec, arg, data, origin, columns, ret>>

ArrayNextAction == ArrayPack \/ ArrayUnpack \/ ElementsUnpackNext

SpecArray == ArrayInit /\ [][ArrayNextAction]_vars

\* C1: array round trip.  For a bound sequence of even length, array_unpack
\* of the packed buffer returns the packed flags, type tag and bounds without
\* error, and its element sequence yields the packed elements in order (None
\* for None, b'' for b''), never raises, and has yielded all of them when it
\* ends.
ArrayRoundTrip ==
    (codec = "array" /\ origin = "pack" /\ Len(arg.dlb) % 2 = 0
        /\ pc \notin {"init", "call"}) =>
        /\ pc # "error"
        /\ err = NoErr
        /\ ret.returned
        /\ ret.header.flags = arg.flags
        /\ ret.header.typid = arg.typid
        /\ ret.header.dlb = arg.dlb
        /\ IsPrefix(out, arg.elements)
        /\ (pc = "done" => out = arg.elements)

ArrayRoundTripWitness ==
    /\ codec = "array" /\ origin = "pack" /\ pc = "done"
    /\ Len(arg.dlb) = 2
    /\ Len(arg.elements) = 3
    /\ arg.elements[1] = None
    /\ arg.elements[2] = Bytes(null_sequence)
    /\ arg.elements[3] = Bytes(<<>>)
    /\ out = arg.elements

\* C4 (as claimed): every non-null payload the element sequence yields has
\* exactly the length its 4-byte prefix declared.
ElementsHaveDeclaredLength ==
    (codec = "array" /\ pc = "yield" /\ ~out[Len(out)].isnone) =>
        Len(out[Len(out)].bytes) = sizeof_el

HeaderDims == long_unpack(SubSeq(data, 1, 4))

\* C6: a header with a negative dimension count makes the call array_unpack
\* raise the invalid-dimensions error, with no bound integer decoded, nothing
\* returned and so no element ever yielded; with a count >= 0 and the bytes
\* of the bounds present, the call returns exactly 2 x count bound integers.
ArrayDimensionsChecked ==
    (codec = "array" /\ pc \notin {"init", "call"} /\ Len(data) >= 12) =>
        /\ HeaderDims < 0 =>
            /\ pc = "error"
            /\ err = InvalidDimensions
            /\ ~ret.returned
            /\ ret.nbounds = 0
            /\ out = <<>>
        /\ (HeaderDims >= 0 /\ Len(data) >= 12 + 8 * HeaderDims) =>
            /\ ret.returned
            /\ ret.nbounds = 2 * HeaderDims
            /\ Len(ret.header.dlb) = 2 * HeaderDims

ArrayDimensionsWitness ==
    /\ codec = "array" /\ pc = "error" /\ err = InvalidDimensions
    /\ HeaderDims = -1
    /\ Len(data) >= 20

\* C10 (as claimed): from one yield of the element sequence to the next its
\* byte offset strictly increases.
ElementsOffsetAdvances ==
    [][(codec = "array" /\ pc \in {"elements", "yield"} /\ pc' = "yield")
            => offset' > offset]_vars

-----------------------------------------------------------------------------
(* fixed-capacity vectors *)

\* a str object, '...': not a bytes object b'...'
PyStr(c) == [type |-> "str", val |-> c]

\* struct "!h": signed 16-bit
short_pack(n) ==
    IF n >= 0 THEN <<n \div 256, n % 256>>
    ELSE Complement(<<(-(n + 1)) \div 256, (-(n + 1)) % 256>>)

\* struct.pack("!<n>L", *seq) and struct.pack("!<n>h", *seq)
pack_ulongs(seq) == Join([i \in 1..Len(seq) |-> ulong_pack(seq[i])])
pack_shorts(seq) == Join([i \in 1..Len(seq) |-> short_pack(seq[i])])

\* bytes.ljust(width, fillchar): the fill must be a bytes object of length
\* one, otherwise TypeError; a receiver of width or more bytes is returned
\* as it is.
bytes_ljust(b, width, fillchar) ==
    IF fillchar.type # "bytes" \/ Len(fillchar.val) # 1
    THEN [err |-> TypeError, val |-> <<>>]
    ELSE [err |-> NoErr,
          val |-> b \o [i \in 1..(width - Len(b)) |-> fillchar.val[1]]]

OidvectorCapacity == 128
Int2vectorCapacity == 64

oidvector_pack(seq) == bytes_ljust(pack_ulongs(seq), OidvectorCapacity, PyStr(<<0>>))

int2vector_pack(seq) == bytes_ljust(pack_shorts(seq), Int2vectorCapacity, PyStr(<<0>>))

VectorInputs ==
    {[i \in 1..n |-> i] : n \in 0..MaxVecLen}
    \cup {[i \in 1..n |-> c] : n \in 0..MaxVecLen, c \in {0, 7}}

VectorInit ==
    /\ codec \in {"oidvector", "int2vector"}
    /\ origin = "pack"
    /\ arg \in VectorInputs
    /\ data = <<>>
    /\ pc = "init"
    /\ columns = 0
    /\ offset = 0
    /\ sizeof_el = 0
    /\ out = <<>>
    /\ ret = NoValue
    /\ err = NoErr

\* data = oidvector_pack(arg)
OidvectorPack ==
    /\ codec = "oidvector"
    /\ pc = "init"
    /\ LET r == oidvector_pack(arg)
       IN  /\ data' = r.val
           /\ err' = r.err
           /\ pc' = IF r.err = NoErr THEN "done" ELSE "error"
    /\ UNCHANGED <<codec, arg, origin, columns, offset, sizeof_el, out, ret>>

\* data = int2vector_pack(arg)
Int2vectorPack ==
    /\ codec = "int2vector"
    /\ pc = "init"
    /\ LET r == int2vector_pack(arg)
       IN  /\ data' = r.val
           /\ err' = r.err
           /\ pc' = IF r.err = NoErr THEN "done" ELSE "error"
    /\ UNCHANGED <<codec, arg, origin, columns, offset, sizeof_el, out, ret>>

VectorNextAction == OidvectorPack \/ Int2vectorPack

SpecVector == VectorInit /\ [][VectorNextAction]_vars

Zeros(n) == [i \in 1..n |-> 0]

\* C7 (as claimed): for every input sequence oidvector_pack returns exactly
\* 128 bytes and int2vector_pack exactly 64 bytes: the encoded integers
\* followed by zero bytes.
VectorPackFixedCapacity ==
    /\ (codec = "oidvector" /\ pc # "init") =>
        /\ pc = "done"
        /\ Len(data) = 128
        /\ \E k \in 0..128 : data = pack_ulongs(arg) \o Zeros(k)
    /\ (codec = "int2vector" /\ pc # "init") =>
        /\ pc = "done"
        /\ Len(data) = 64
        /\ \E k \in 0..64 : data = pack_shorts(arg) \o Zeros(k)

-----------------------------------------------------------------------------
(* 64-bit integers and doubles *)

\* A Python integer too wide for the 32-bit integers of the model, and a
\* double with an exactly representable value, are both written
\* [q, r] = q * 1000000 + r (for a double: q + r / 1000000) with
\* 0 <= r < 1000000: whole seconds and microseconds.
Million == 1000000

Wide(q, r) == [q |-> q + r \div Million, r |-> r % Million]

WideNegMinusOne(n) == [q |-> -n.q - 1, r |-> Million - 1 - n.r]

\* the k low-order bytes of n >= 0, most significant first
RECURSIVE WideBytes(_, _)
WideBytes(n, k) ==
    IF k = 0 THEN <<>>
    ELSE LET t == (n.q % 256) * Million + n.r
         IN  WideBytes([q |-> n.q \div 256, r |-> t \div 256], k - 1)
                 \o <<t % 256>>

RECURSIVE WideFromBytes(_)
WideFromBytes(b) ==
    IF b = <<>> THEN [q |-> 0, r |-> 0]
    ELSE LET hi == WideFromBytes(SubSeq(b, 1, Len(b) - 1))
             t == hi.r * 256 + b[Len(b)]
         IN  [q |-> hi.q * 256 + t \div Million, r |-> t % Million]

\* struct "!q": signed 64-bit, two's complement
longlong_pack(n) ==
    IF n.q >= 0 THEN WideBytes(n, 8)
    ELSE Complement(WideBytes(WideNegMinusOne(n), 8))

longlong_unpack(b) ==
    IF b[1] < 128 THEN WideFromBytes(b)
    ELSE WideNegMinusOne(WideFromBytes(Complement(b)))

RECURSIVE Pow2(_)
Pow2(n) == IF n = 0 THEN 1 ELSE 2 * Pow2(n - 1)

RECURSIVE Log2(_)
Log2(n) == IF n < 2 THEN 0 ELSE 1 + Log2(n \div 2)

\* n in w binary digits, most significant first
Bits(n, w) == [i \in 1..w |-> (n \div Pow2(w - i)) % 2]

RECURSIVE FromBits(_)
FromBits(b) ==
    IF b = <<>> THEN 0 ELSE 2 * FromBits(SubSeq(b, 1, Len(b) - 1)) + b[Len(b)]

BitsToBytes(b) == [i \in 1..(Len(b) \div 8) |-> FromBits(SubSeq(b, 8 * i - 7, 8 * i))]
BytesToBits(b) == [i \in 1..(8 * Len(b)) |-> (b[(i + 7) \div 8] \div Pow2(7 - ((i - 1) % 8))) % 2]

\* struct "!d" (IEEE 754 binary64) for the doubles the model uses: whole and
\* half numbers, h / 2 with |h| < 2^30.  Sign bit, 11-bit biased exponent,
\* 52-bit fraction.
Halves(x) == 2 * x.q + (IF x.r = 0 THEN 0 ELSE 1)

double_pack(x) ==
    LET h == Halves(x)
        a == IF h < 0 THEN -h ELSE h
        p == Log2(a)
    IN  IF h = 0 THEN Zeros(8)
        ELSE BitsToBytes(<<IF h < 0 THEN 1 ELSE 0>> \o Bits(1022 + p, 11)
                            \o Bits(a - Pow2(p), p) \o Zeros(52 - p))

double_unpack(b) ==
    LET bits == BytesToBits(b)
        e == FromBits(SubSeq(bits, 2, 12))
        p == e - 1022
        a == Pow2(p) + FromBits(SubSeq(bits, 13, 12 + p))
        h == IF bits[1] = 1 THEN -a ELSE a
    IN  IF e = 0 THEN [q |-> 0, r |-> 0]
        ELSE [q |-> h \div 2, r |-> (h % 2) * (Million \div 2)]

\* struct "!ql" and "!dl"
ql_pack(t) == longlong_pack(t[1]) \o long_pack(t[2])
ql_unpack(d) == <<longlong_unpack(SubSeq(d, 1, 8)), long_unpack(SubSeq(d, 9, 12))>>
dl_pack(t) == double_pack(t[1]) \o long_pack(t[2])
dl_unpack(d) == <<double_unpack(SubSeq(d, 1, 8)), long_unpack(SubSeq(d, 9, 12))>>

-----------------------------------------------------------------------------
(* interval codecs without a day component *)

\* float(seconds) + microseconds / 1000000.0, exact for the doubles above
mktime(seconds_ms) == Wide(seconds_ms[1], seconds_ms[2])

\* (int(floor(ts)), int(1000000 * (ts - floor(ts))))
mktimetuple(ts) == <<ts.q, ts.r>>

\* seconds * 1000000 + microseconds
mktime64(seconds_ms) == Wide(seconds_ms[1], seconds_ms[2])

\* (ts // 1000000, ts - (ts // 1000000) * 1000000)
mktimetuple64(ts) == <<ts.q, ts.r>>

\* mutation: a day taken as 24 * 60 seconds
fold_days_minutes(day, timetup) ==
    IF day # 0 THEN <<timetup[1] + (day * 24 * 60), timetup[2]>> ELSE timetup

\* lines 123-124 and 165-166
fold_days(day, timetup) ==
    IF day # 0 THEN <<timetup[1] + (day * 24 * 60 * 60), timetup[2]>> ELSE timetup

interval_noday_pack(t) == dl_pack(<<mktime(fold_days(t[2], t[3])), t[1]>>)

interval_noday_unpack(d) ==
    LET u == dl_unpack(d) IN <<u[2], 0, mktimetuple(u[1])>>

interval64_noday_pack(t) == ql_pack(<<mktime64(fold_days(t[2], t[3])), t[1]>>)

interval64_noday_unpack(d) ==
    LET u == ql_unpack(d) IN <<u[2], 0, mktimetuple64(u[1])>>

MonthVals == {-1, 0, 2}
DayVals == {-2, 0, 3}
SecondVals == {-10, 0, 10}
\* microseconds of the 64-bit codec; the last is outside the convention
\* 0 <= microseconds < 1000000
MicroVals == {0, 1, 999999, 1500000}
\* microseconds of the double codec whose sum with the seconds is exact
ExactMicroVals == {0, 500000}

IntervalInit ==
    /\ \/ /\ codec = "interval64_noday"
          /\ arg \in MonthVals \X DayVals \X (SecondVals \X MicroVals)
       \/ /\ codec = "interval_noday"
          /\ arg \in MonthVals \X DayVals \X (SecondVals \X ExactMicroVals)
    /\ origin = "pack"
    /\ data = <<>>
    /\ pc = "init"
    /\ columns = 0
    /\ offset = 0
    /\ sizeof_el = 0
    /\ out = <<>>
    /\ ret = NoValue
    /\ err = NoErr

\* data = interval_noday_pack(arg)
IntervalNodayPack ==
    /\ codec = "interval_noday"
    /\ pc = "init"
    /\ data' = interval_noday_pack(arg)
    /\ pc' = "call"
    /\ UNCHANGED <<codec, arg, origin, columns, offset, sizeof_el, out, ret, err>>

\* ret = interval_noday_unpack(data)
IntervalNodayUnpack ==
    /\ codec = "interval_noday"
    /\ pc = "call"
    /\ ret' = interval_noday_unpack(data)
    /\ pc' = "done"
    /\ UNCHANGED <<codec, arg, data, origin, columns, offset, sizeof_el, out, err>>

\* data = interval64_noday_pack(arg)
Interval64NodayPack ==
    /\ codec = "interval64_noday"
    /\ pc = "init"
    /\ data' = interval64_noday_pack(arg)
    /\ pc' = "call"
    /\ UNCHANGED <<codec, arg, origin, columns, offset, sizeof_el, out, ret, err>>

\* ret = interval64_noday_unpack(data)
Interval64NodayUnpack ==
    /\ codec = "interval64_noday"
    /\ pc = "call"
    /\ ret' = interval64_noday_unpack(data)
    /\ pc' = "done"
    /\ UNCHANGED <<codec, arg, data, origin, columns, offset, sizeof_el, out, err>>

IntervalNextAction ==
    IntervalNodayPack \/ IntervalNodayUnpack
        \/ Interval64NodayPack \/ Interval64NodayUnpack

SpecInterval == IntervalInit /\ [][IntervalNextAction]_vars

\* C8: unpacking a packed no-day interval gives the months, a day component
\* of 0, and the seconds plus 86400 per day with the microseconds unchanged:
\* for the 64-bit codec whenever 0 <= microseconds < 1000000, for the double
\* codec on whole seconds.  The day component is 0 for every input.
IntervalNodayFold ==
    (codec \in {"interval_noday", "interval64_noday"} /\ pc = "done") =>
        /\ ret[2] = 0
        /\ ((codec = "interval64_noday" /\ 0 <= arg[3][2] /\ arg[3][2] < 1000000)
                \/ (codec = "interval_noday" /\ arg[3][2] = 0)) =>
            ret = <<arg[1], 0, <<arg[3][1] + 86400 * arg[2], arg[3][2]>>>>

IntervalNodayFoldWitness ==
    /\ codec = "interval_noday" /\ pc = "done"
    /\ arg = <<2, 3, <<10, 0>>>>
    /\ ret = <<2, 0, <<259210, 0>>>>

-----------------------------------------------------------------------------
(* path and polygon *)

\* struct.pack("!l<n>d", n, *data) with n = len(data)
path_pack(coords) ==
    long_pack(Len(coords)) \o Join([i \in 1..Len(coords) |-> double_pack(coords[i])])

\* struct.unpack("!4x<n>d", d) with n = long_unpack(d[:4]): d must be exactly
\* as long as the format
path_unpack(d) ==
    IF TooShort(PySlice(d, 0, 4), 4)
    THEN [err |-> StructError, val |-> <<>>]
    ELSE LET n == long_unpack(PySlice(d, 0, 4))
         IN  IF n < 0 \/ Len(d) # 4 + 8 * n
             THEN [err |-> StructError, val |-> <<>>]
             ELSE [err |-> NoErr,
                   val |-> [i \in 1..n |-> double_unpack(SubSeq(d, 8 * i - 3, 8 * i + 4))]]

CoordVals == {[q |-> 0, r |-> 0], [q |-> 1, r |-> 500000], [q |-> -3, r |-> 0]}

\* buffers laid out as the wire format has them: the number of points, then
\* two doubles for each point
WirePaths ==
    {long_pack(n) \o Join([i \in 1..(2 * n) |-> double_pack(cs[i])]) :
        n \in 0..MaxPoints, cs \in [1..(2 * MaxPoints) -> CoordVals]}

PathInit ==
    /\ codec = "path"
    /\ \/ /\ origin = "pack"
          /\ arg \in SeqsUpTo(CoordVals, MaxCoords)
          /\ data = <<>>
          /\ pc = "init"
       \/ /\ origin = "wire"
          /\ arg = NoValue
          /\ data \in WirePaths
          /\ pc = "call"
    /\ columns = 0
    /\ offset = 0
    /\ sizeof_el = 0
    /\ out = <<>>
    /\ ret = NoValue
    /\ err = NoErr

\* data = path_pack(arg)
PathPack ==
    /\ codec = "path"
    /\ pc = "init"
    /\ data' = path_pack(arg)
    /\ pc' = "call"
    /\ UNCHANGED <<codec, arg, origin, columns, offset, sizeof_el, out, ret, err>>

\* ret = path_unpack(data)
PathUnpack ==
    /\ codec = "path"
    /\ pc = "call"
    /\ LET r == path_unpack(data)
       IN  /\ ret' = r.val
           /\ err' = r.err
           /\ pc' = IF r.err = NoErr THEN "done" ELSE "error"
    /\ UNCHANGED <<codec, arg, data, origin, columns, offset, sizeof_el, out>>

PathNextAction == PathPack \/ PathUnpack

SpecPath == PathInit /\ [][PathNextAction]_vars

PathPrefix == long_unpack(SubSeq(data, 1, 4))

\* C9 (as claimed): for a flat coordinate sequence of even length 2n the
\* prefix path_pack writes is the point count n, and path_unpack decodes
\* 2 x prefix doubles.
PathPrefixIsPointCount ==
    /\ (codec = "path" /\ origin = "pack" /\ pc # "init" /\ Len(arg) % 2 = 0) =>
        PathPrefix = Len(arg) \div 2
    /\ (codec = "path" /\ pc \in {"done", "error"}) =>
        (pc = "done" /\ Len(ret) = 2 * PathPrefix)

=============================================================================
